---- MODULE Spec2Model ----
(***************************************************************************)
(* Model of src/miku666/C/Monitor_usart.c: the byte-level frame decoder    *)
(* (HAL_UART_RxCpltCallback, Update_Temperature), run from the USART1      *)
(* receive interrupt, and the polling task (Monitor_Task) of the main      *)
(* loop, which the interrupt may preempt between any two statements        *)
(* unless interrupts are disabled.                                         *)
(*                                                                         *)
(* Representation choices:                                                 *)
(*  - a temperature (float val = raw / 10.0f) is held in tenths of a       *)
(*    degree, i.e. as the integer the float is ten times of;               *)
(*  - adc_values holds the live part of the C array (slots below           *)
(*    adc_count); the slots at and above adc_count are written before      *)
(*    they are read and carry no state;                                    *)
(*  - the 15 s LED heartbeat (next_led_tick) touches no other state and is *)
(*    left out;                                                            *)
(*  - uint32_t tick arithmetic is arithmetic modulo TickMod;               *)
(*  - the callback runs to completion (the main loop cannot preempt it),   *)
(*    so it is one step; Monitor_Task is cut at every access to state the  *)
(*    callback reads or writes;                                            *)
(*  - the tick is seen to advance between two polls and during the wait    *)
(*    for the button's release, by steps of at least the 20 ms debounce    *)
(*    delay; the rest of a poll is short against a step.  A press shorter  *)
(*    than the debounce delay toggles nothing and is left out.             *)
(*  - reported and fresh are history variables: they record what the       *)
(*    program did (the ticks of the last two reports, a synchronization    *)
(*    since the last toggle) and no action reads them.                     *)
(***************************************************************************)
EXTENDS Integers, Sequences, FiniteSets, TLC

\* ------------------------------------------------------------- constants
PRINT_INTERVAL_MS == 250
ADC_SAMPLE_MS == 50
MAX_ADC_SAMPLES == 10
\* TEMP_MIN 0.0f and TEMP_MAX 100.0f, in tenths of a degree
TEMP_MIN == 0
TEMP_MAX == 1000

\* width of the tick counter and of uint16_t / uint8_t
TickMod == 2^16
U32(x) == x % TickMod
\* (int32_t) of a uint32_t value
S32(x) == IF U32(x) >= TickMod \div 2 THEN U32(x) - TickMod ELSE U32(x)

\* ----------------------------------------------------------------- bounds
\* the tick never passes MaxTick
MaxTick == 770
\* longest run of noise bytes between the two frames of a stream
MaxNoise == 3
\* the tick never passes MaxWrapTick in a run that starts before the wrap
MaxWrapTick == 300

\* the amounts by which the tick advances between two observations of it
TickSteps == {50, 250}
\* temperature payload bytes on the wire: raw 232, 233, 1000, 1001
LsbBytes == {232, 233}
MsbBytes == {0, 3}
\* the temperatures (lsb, msb) the sensor sends while the task runs: raw 232,
\* 1000 (the upper end of the range) and 1001
Payloads == {<<232, 0>>, <<232, 3>>, <<233, 3>>}
\* noise bytes: the header bytes themselves and the request-frame length
NoiseBytes == {252, 10, 0, 1}
\* analog readings (what the window holds matters to the median only);
\* AdcFail stands for HAL_ADC_PollForConversion != HAL_OK
AdcVals == {7}
AdcFail == 0 - 1

\* ------------------------------------------------------------------ state
VARIABLES
  tick,                 \* HAL_GetTick()
  wire, pos,            \* bytes on the UART line, and how many were received
  p_state, data_buf, data_idx,
  g_latest_valid_temp, g_has_valid_data,
  adc_values, adc_count, next_adc_tick,
  is_running, time_synced, time_base_tick, next_print_tick,
  pc,                   \* position of the main loop inside Monitor_Task
  now,                  \* Monitor_Task's local now
  current_temp, has_data,  \* Monitor_Task's locals of the print block
  irq_off,              \* TRUE between __disable_irq and __enable_irq
  sample,               \* what the last received byte handed to Update_Temperature
  report,               \* the line being transmitted by the current poll
  seen,                 \* register contents during the current register read
  reported,             \* the ticks of the polls of the last two reports
  fresh                 \* the sync flag was set since is_running last changed

decoder == <<p_state, data_buf, data_idx>>
register == <<g_latest_valid_temp, g_has_valid_data>>
timeline == <<time_synced, time_base_tick, next_print_tick, next_adc_tick>>
window == <<adc_values, adc_count>>
locals == <<now, current_temp, has_data>>
history == <<reported, fresh>>
vars == <<tick, wire, pos, decoder, register, timeline, window, is_running,
          pc, locals, irq_off, sample, report, seen, history>>

NoSample == 0 - 1
NoReport == <<>>

\* ---------------------------------------------------------------- helpers
RECURSIVE XorBits(_, _, _)
XorBits(a, b, n) ==
  IF n = 0 THEN 0
  ELSE (((a % 2) + (b % 2)) % 2) + 2 * XorBits(a \div 2, b \div 2, n - 1)

\* a ^ b on uint8_t
Xor8(a, b) == XorBits(a, b, 8)

RECURSIVE XorAll(_)
XorAll(s) == IF s = <<>> THEN 0 ELSE Xor8(Head(s), XorAll(Tail(s)))

\* the ten bytes of a frame: FC 0A 00 01, six payload bytes
Frame(b0, b1, b2, b3, b4, b5) == <<252, 10, 0, 1, b0, b1, b2, b3, b4, b5>>

\* the XOR of the first nine bytes of a frame
Checksum(b0, b1, b2, b3, b4) == XorAll(<<252, 10, 0, 1, b0, b1, b2, b3, b4>>)

\* a frame whose tenth byte is the XOR of the nine before it
GoodFrame(b0, b1) == Frame(b0, b1, 0, 0, 0, Checksum(b0, b1, 0, 0, 0))

\* the same frame with every bit of the tenth byte flipped
BadFrame(b0, b1) == Frame(b0, b1, 0, 0, 0, Xor8(Checksum(b0, b1, 0, 0, 0), 255))

\* uint16_t raw = lsb | (msb << 8)
RawOf(lsb, msb) == (lsb + 256 * msb) % 65536

InRangeNoMax(raw) == raw >= TEMP_MIN

\* val >= TEMP_MIN && val <= TEMP_MAX, val = raw / 10.0f
InRange(raw) == raw >= TEMP_MIN /\ raw <= TEMP_MAX

\* a frame whose fifth payload byte is such that the XOR of its first nine
\* bytes, and with it the checksum, is 0
SensorFrame(b0, b1) == Frame(b0, b1, 0, 0, Checksum(b0, b1, 0, 0, 0), 0)

\* the frames the sensor sends while the task runs
SensorFrames == {SensorFrame(p[1], p[2]) : p \in Payloads}

\* ---------------------------------------------------------- Get_Median_ADC
Swap(s, j) == [s EXCEPT ![j] = s[j + 1], ![j + 1] = s[j]]

\* the inner loop of the bubble sort, for (j = j0; j < n-i-1; j++), 0-based j
RECURSIVE InnerLoop(_, _, _, _)
InnerLoop(s, n, i, j) ==
  IF j < n - i - 1
  THEN InnerLoop(IF s[j + 1] > s[j + 2] THEN Swap(s, j + 1) ELSE s, n, i, j + 1)
  ELSE s

\* the outer loop, for (i = i0; i < n-1; i++)
RECURSIVE OuterLoop(_, _, _)
OuterLoop(s, n, i) ==
  IF i < n - 1 THEN OuterLoop(InnerLoop(s, n, i, 0), n, i + 1) ELSE s

\* sorted[] after the bubble sort of a copy of the first n readings
BubbleSorted(vals) == OuterLoop(vals, Len(vals), 0)

Get_Median_ADC_Low(vals, count) ==
  IF count = 0 THEN 0
  ELSE BubbleSorted(SubSeq(vals, 1, count))[((count - 1) \div 2) + 1]

\* sorted[n/2] of the copy, 0 for an empty window
Get_Median_ADC(vals, count) ==
  IF count = 0 THEN 0
  ELSE BubbleSorted(SubSeq(vals, 1, count))[(count \div 2) + 1]

\* ------------------------------------------------------------------- Init
\* the initializers of the file-scope variables other than the sample window
InitStatics ==
  /\ pos = 0
  /\ p_state = "STATE_WAIT_FC"
  /\ data_buf = <<0, 0, 0, 0, 0, 0>>
  /\ data_idx = 0
  /\ g_latest_valid_temp = 0
  /\ g_has_valid_data = 0
  /\ next_adc_tick = 0
  /\ is_running = 1
  /\ time_synced = 0
  /\ time_base_tick = 0
  /\ next_print_tick = 0
  /\ irq_off = FALSE
  /\ sample = NoSample
  /\ report = NoReport
  /\ seen = {}
  /\ reported = <<>>
  /\ fresh = FALSE

InitCommon ==
  /\ InitStatics
  /\ tick = 0
  /\ adc_values = <<>>
  /\ adc_count = 0
  /\ pc = "idle"
  /\ now = 0
  /\ current_temp = 0
  /\ has_data = 0

Init == InitCommon /\ wire = <<>>

\* ----------------------------------------------------- Update_Temperature
SyncGuardAnyFrame == is_running = 1

SyncGuardStopped == time_synced = 0

\* the guard of the time-axis block
SyncGuard == is_running = 1 /\ time_synced = 0

SyncBaseAtArrival(t) == t

\* the tick from which the first report is due and which reads as 0.00 s
SyncBase(t) == U32(t + PRINT_INTERVAL_MS)

Update_Temperature(lsb, msb) ==
  LET raw == RawOf(lsb, msb) IN
  IF InRange(raw)
  THEN /\ g_latest_valid_temp' = raw
       /\ g_has_valid_data' = 1
       /\ IF SyncGuard
          THEN /\ time_synced' = 1
               /\ time_base_tick' = SyncBase(tick)
               /\ next_print_tick' = U32(tick + PRINT_INTERVAL_MS)
               /\ next_adc_tick' = tick
          ELSE UNCHANGED timeline
  ELSE UNCHANGED <<register, timeline>>

\* ------------------------------------------------ HAL_UART_RxCpltCallback
\* data_idx >= 6, after the increment
FrameCompleteEarly(idx) == idx >= 5

FrameComplete(idx) == idx >= 6

\* the state after a byte of the frame header
HeaderNext(st, b) ==
  CASE st = "STATE_WAIT_FC" ->
         IF b = 252 THEN "STATE_CHECK_LEN" ELSE "STATE_WAIT_FC"
    [] st = "STATE_CHECK_LEN" ->
         IF b = 10 THEN "STATE_CHECK_ZERO" ELSE "STATE_WAIT_FC"
    [] st = "STATE_CHECK_ZERO" ->
         IF b = 0 THEN "STATE_CHECK_STATUS" ELSE "STATE_WAIT_FC"
    [] st = "STATE_CHECK_STATUS" ->
         IF b = 1 THEN "STATE_READ_DATA" ELSE "STATE_WAIT_FC"

\* the switch of the callback on one received byte b, on the decoder state
\* d = [st, buf, idx]
Consume(d, b) ==
  IF d.st = "STATE_READ_DATA"
  THEN [st |-> IF FrameComplete(d.idx + 1) THEN "STATE_WAIT_FC" ELSE d.st,
        buf |-> [d.buf EXCEPT ![d.idx + 1] = b],
        idx |-> d.idx + 1]
  ELSE [st |-> HeaderNext(d.st, b),
        buf |-> d.buf,
        idx |-> IF d.st = "STATE_CHECK_STATUS" /\ b = 1 THEN 0 ELSE d.idx]

\* whether the callback, in decoder state d, calls Update_Temperature
Completes(d) == d.st = "STATE_READ_DATA" /\ FrameComplete(d.idx + 1)

Decoder == [st |-> p_state, buf |-> data_buf, idx |-> data_idx]

\* the receive interrupt: one byte of the wire is handed to the callback
RxCplt ==
  /\ ~irq_off
  /\ pos < Len(wire)
  /\ pos' = pos + 1
  /\ LET r == Consume(Decoder, wire[pos + 1]) IN
     /\ p_state' = r.st
     /\ data_buf' = r.buf
     /\ data_idx' = r.idx
     /\ IF Completes(Decoder)
        THEN /\ Update_Temperature(r.buf[1], r.buf[2])
             /\ sample' = RawOf(r.buf[1], r.buf[2])
        ELSE /\ UNCHANGED <<register, timeline>>
             /\ sample' = NoSample
  /\ seen' = IF pc = "rd_flag"
             THEN seen \cup {<<g_has_valid_data', g_latest_valid_temp'>>}
             ELSE seen
  /\ fresh' = IF time_synced = 0 /\ time_synced' = 1 THEN TRUE ELSE fresh
  /\ UNCHANGED <<tick, wire, window, is_running, pc, locals, irq_off, report,
                 reported>>

\* ------------------------------------------------------------ environment
\* the decoder state after the callback has run on each byte of s in turn,
\* none of them completing a frame
RECURSIVE ConsumeAll(_, _)
ConsumeAll(d, s) ==
  IF s = <<>> THEN d
  ELSE ConsumeAll(Consume(d, Head(s)), Tail(s))

\* The sensor sends its next frame once the previous one is read, and the
\* callback runs on the first nine bytes.  Those nine runs read and write the
\* decoder state only, so they commute with every step of the polling task
\* and with the passing of time: the model lets them happen back to back and
\* interleaves only the run on the tenth byte, which completes the frame.
SendFrame ==
  /\ ~irq_off
  /\ pos = Len(wire)
  /\ p_state = "STATE_WAIT_FC"
  /\ \E f \in SensorFrames :
       /\ wire' = f
       /\ \E d \in {ConsumeAll(Decoder, SubSeq(f, 1, 9))} :
            /\ p_state' = d.st
            /\ data_buf' = d.buf
            /\ data_idx' = d.idx
  /\ pos' = 9
  /\ sample' = NoSample
  /\ UNCHANGED <<tick, register, timeline, window, is_running, pc, locals,
                 irq_off, report, seen>>
  /\ UNCHANGED history

\* time passes while the main loop is between two polls or waits for the
\* button to be released.  The tick is a fixed-width counter that wraps to 0;
\* MaxTick bounds it as a signed distance from 0, so that a run may start
\* shortly before the wrap.
Tick ==
  /\ pc \in {"idle", "hold"}
  /\ \E d \in TickSteps : S32(tick) + d <= MaxTick /\ tick' = U32(tick + d)
  /\ UNCHANGED <<wire, pos, decoder, register, timeline, window, is_running,
                 pc, locals, irq_off, sample, report, seen>>
  /\ UNCHANGED history

\* ------------------------------------------------------------ Monitor_Task
\* The locals now, current_temp and has_data (and the history variable seen)
\* are put back to 0 when the task returns: they are dead until the next call
\* sets them.
\* uint32_t now = HAL_GetTick()
PollStart ==
  /\ pc = "idle"
  /\ now' = tick
  /\ pc' = "btn"
  /\ UNCHANGED <<tick, wire, pos, decoder, register, timeline, window,
                 is_running, current_temp, has_data, irq_off, sample, report,
                 seen>>
  /\ UNCHANGED history

\* the button reads released: no toggle
BtnIdle ==
  /\ pc = "btn"
  /\ pc' = "gate"
  /\ UNCHANGED <<tick, wire, pos, decoder, register, timeline, window,
                 is_running, locals, irq_off, sample, report, seen>>
  /\ UNCHANGED history

\* the button reads pressed, and still does after the HAL_Delay(20): the
\* task busy-waits for its release, at least the debounce time having passed
BtnPress ==
  /\ pc = "btn"
  /\ \E d \in TickSteps : S32(tick) + d <= MaxTick /\ tick' = U32(tick + d)
  /\ pc' = "hold"
  /\ UNCHANGED <<wire, pos, decoder, register, timeline, window, is_running,
                 locals, irq_off, sample, report, seen>>
  /\ UNCHANGED history

\* the button is released: is_running = !is_running
BtnRelease ==
  /\ pc = "hold"
  /\ is_running' = 1 - is_running
  /\ pc' = IF is_running = 0 THEN "restart" ELSE "gate"
  /\ fresh' = FALSE
  /\ UNCHANGED <<tick, wire, pos, decoder, register, timeline, window,
                 locals, irq_off, sample, report, seen, reported>>

\* the restart branch: time_synced = 0; adc_count = 0
Restart ==
  /\ pc = "restart"
  /\ time_synced' = 0
  /\ adc_count' = 0
  /\ adc_values' = <<>>
  /\ pc' = "gate"
  /\ UNCHANGED <<tick, wire, pos, decoder, register, time_base_tick,
                 next_print_tick, next_adc_tick, is_running, locals, irq_off,
                 sample, report, seen, reported, fresh>>

RunGateNoSync == is_running = 1

\* if (is_running && time_synced)
RunGate == is_running = 1 /\ time_synced = 1

Gate ==
  /\ pc = "gate"
  /\ pc' = IF RunGate THEN "adc" ELSE "idle"
  /\ now' = IF RunGate THEN now ELSE 0
  /\ UNCHANGED <<tick, wire, pos, decoder, register, timeline, window,
                 is_running, current_temp, has_data, irq_off, sample, report,
                 seen>>
  /\ UNCHANGED history

AdvanceFromNow(deadline, period, n) == U32(n + period)

AdvanceNoResync(deadline, period, n) == U32(deadline + period)

\* deadline += period; if (deadline < now) deadline = now + period
Advance(deadline, period, n) ==
  LET d == U32(deadline + period) IN
  IF d < n THEN U32(n + period) ELSE d

\* the ADC block; r is the conversion's result
AdcSample ==
  /\ pc = "adc"
  /\ IF now >= next_adc_tick
     THEN /\ \E r \in AdcVals \cup {AdcFail} :
               IF r # AdcFail /\ adc_count < MAX_ADC_SAMPLES
               THEN /\ adc_values' = Append(adc_values, r)
                    /\ adc_count' = adc_count + 1
               ELSE UNCHANGED window
          /\ next_adc_tick' = Advance(next_adc_tick, ADC_SAMPLE_MS, now)
     ELSE UNCHANGED <<window, next_adc_tick>>
  /\ pc' = "print"
  /\ UNCHANGED <<tick, wire, pos, decoder, register, time_synced,
                 time_base_tick, next_print_tick, is_running, locals, irq_off,
                 sample, report, seen, reported, fresh>>

IrqMaskOff == FALSE

\* whether __disable_irq() masks the receive interrupt
IrqMask == TRUE

PrintDueAlways(n) == TRUE

PrintDueNever(n) == FALSE

\* now >= next_print_tick
PrintDue(n) == n >= next_print_tick

\* if (now >= next_print_tick) { ... __disable_irq()
PrintCheck ==
  /\ pc = "print"
  /\ IF PrintDue(now)
     THEN pc' = "rd_temp" /\ irq_off' = IrqMask /\ UNCHANGED now
     ELSE pc' = "idle" /\ now' = 0 /\ UNCHANGED irq_off
  /\ UNCHANGED <<tick, wire, pos, decoder, register, timeline, window,
                 is_running, current_temp, has_data, sample, report, seen>>
  /\ UNCHANGED history

\* current_temp = g_latest_valid_temp
ReadTemp ==
  /\ pc = "rd_temp"
  /\ current_temp' = g_latest_valid_temp
  /\ seen' = {<<g_has_valid_data, g_latest_valid_temp>>}
  /\ pc' = "rd_flag"
  /\ UNCHANGED <<tick, wire, pos, decoder, register, timeline, window,
                 is_running, now, has_data, irq_off, sample, report>>
  /\ UNCHANGED history

\* has_data = g_has_valid_data; __enable_irq()
ReadFlag ==
  /\ pc = "rd_flag"
  /\ has_data' = g_has_valid_data
  /\ irq_off' = FALSE
  /\ pc' = "emit"
  /\ UNCHANGED <<tick, wire, pos, decoder, register, timeline, window,
                 is_running, now, current_temp, sample, seen>>
  /\ UNCHANGED report
  /\ UNCHANGED history

\* (int32_t)(now - time_base_tick), the milliseconds printed as seconds
RelativeTime(n, base) == S32(n - base)

\* the arguments of the sprintf of one report line, and the poll's tick
ReportLine(n) ==
  [elapsed |-> RelativeTime(n, time_base_tick),
   temp |-> current_temp,
   adc |-> Get_Median_ADC(adc_values, adc_count),
   at |-> n]

\* the last two elements of a sequence
LastTwo(s) == IF Len(s) > 2 THEN SubSeq(s, Len(s) - 1, Len(s)) ELSE s

\* if (has_data) { sprintf; HAL_UART_Transmit; adc_count = 0; }
Emit ==
  /\ pc = "emit"
  /\ IF has_data = 1
     THEN /\ report' = ReportLine(now)
          /\ adc_count' = 0
          /\ adc_values' = <<>>
          /\ reported' = LastTwo(Append(reported, now))
     ELSE UNCHANGED <<report, window, reported>>
  /\ pc' = "next"
  /\ UNCHANGED <<tick, wire, pos, decoder, register, timeline, is_running,
                 locals, irq_off, sample, seen, fresh>>

\* next_print_tick += period; if (next_print_tick < now) ...; return
NextPrint ==
  /\ pc = "next"
  /\ next_print_tick' = Advance(next_print_tick, PRINT_INTERVAL_MS, now)
  /\ report' = NoReport
  /\ current_temp' = 0
  /\ has_data' = 0
  /\ now' = 0
  /\ seen' = {}
  /\ pc' = "idle"
  /\ UNCHANGED <<tick, wire, pos, decoder, register, time_synced,
                 time_base_tick, next_adc_tick, window, is_running, irq_off,
                 sample>>
  /\ UNCHANGED history

\* ---------------------------------------------------------- specifications
Next ==
  \/ Tick
  \/ SendFrame
  \/ RxCplt
  \/ PollStart
  \/ BtnIdle
  \/ BtnPress
  \/ BtnRelease
  \/ Restart
  \/ Gate
  \/ AdcSample
  \/ PrintCheck
  \/ ReadTemp
  \/ ReadFlag
  \/ Emit
  \/ NextPrint

Spec == Init /\ [][Next]_vars

\* -------------------------------------------------- the decoder on a stream
\* A stream: a frame whose tenth byte is or is not the XOR of the nine before
\* it, a run of noise bytes, and a frame with a correct tenth byte.
FirstFrames ==
  {GoodFrame(b0, b1) : b0 \in LsbBytes, b1 \in MsbBytes}
    \cup {BadFrame(b0, b1) : b0 \in LsbBytes, b1 \in MsbBytes}

SecondFrames == {GoodFrame(b0, b1) : b0 \in LsbBytes, b1 \in MsbBytes}

NoiseRuns == UNION {[1..n -> NoiseBytes] : n \in 0..MaxNoise}

Streams == {f \o n \o g : f \in FirstFrames, n \in NoiseRuns, g \in SecondFrames}

InitDecoder == InitCommon /\ wire \in Streams

\* the interrupt is the only thing that runs: the polling task reads and
\* writes nothing of the decoder state
SpecDecoder == InitDecoder /\ [][RxCplt]_vars

\* the raw value carried by the frame that starts at byte k of the wire
FrameRaw(k) == wire[k + 4] + 256 * wire[k + 5]

\* whether the tenth byte of the frame at byte k is the XOR of the other nine
ChecksumOk(k) == wire[k + 9] = XorAll(SubSeq(wire, k, k + 8))

\* the byte at which the second frame of the stream starts
Second == Len(wire) - 9

\* ------------------------------------------------ the median on a window
\* longest window the median is applied to
MaxWin == 5
\* the analog readings of those windows
Readings == 1..5

Windows == UNION {[1..n -> Readings] : n \in 1..MaxWin}

\* The monitor synchronized on the frame of raw value 232 at tick 0; the poll
\* at TimeBase has read the register and is about to emit the first report,
\* with any of the windows in adc_values.
InitMedian ==
  /\ wire = SensorFrame(232, 0)
  /\ pos = Len(wire)
  /\ p_state = "STATE_WAIT_FC"
  /\ data_buf = SubSeq(wire, 5, 10)
  /\ data_idx = Len(data_buf)
  /\ g_latest_valid_temp = 232
  /\ g_has_valid_data = 1
  /\ is_running = 1
  /\ time_synced = 1
  /\ time_base_tick = PRINT_INTERVAL_MS
  /\ next_print_tick = PRINT_INTERVAL_MS
  /\ next_adc_tick = PRINT_INTERVAL_MS + ADC_SAMPLE_MS
  /\ tick = PRINT_INTERVAL_MS
  /\ adc_values \in Windows
  /\ adc_count = Len(adc_values)
  /\ pc = "emit"
  /\ now = tick
  /\ current_temp = 232
  /\ has_data = 1
  /\ irq_off = FALSE
  /\ sample = 232
  /\ report = NoReport
  /\ seen = {<<1, 232>>}
  /\ reported = <<>>
  /\ fresh = TRUE

\* the report block up to the transmission of the line, before the window is
\* cleared: median_adc = Get_Median_ADC(); relative_time; sprintf
MedianCall ==
  /\ pc = "emit"
  /\ has_data = 1
  /\ report' = ReportLine(now)
  /\ pc' = "clear"
  /\ UNCHANGED <<tick, wire, pos, decoder, register, timeline, window,
                 is_running, locals, irq_off, sample, seen, history>>

SpecMedian == InitMedian /\ [][MedianCall]_vars

\* the (k+1)-th smallest of the readings s, k counted from 0
KthSmallest(s, k) ==
  CHOOSE v \in {s[i] : i \in 1..Len(s)} :
    /\ Cardinality({i \in 1..Len(s) : s[i] < v}) <= k
    /\ Cardinality({i \in 1..Len(s) : s[i] <= v}) > k

\* ------------------------------------------- the monitor across the wrap
\* The tick counter is two sample periods before it wraps to 0.
InitWrap ==
  /\ InitStatics
  /\ wire = <<>>
  /\ tick = TickMod - 2 * ADC_SAMPLE_MS
  /\ adc_values = <<>>
  /\ adc_count = 0
  /\ pc = "idle"
  /\ now = 0
  /\ current_temp = 0
  /\ has_data = 0

\* the steps of the monitor that keep the tick, as a signed distance from 0,
\* within MaxWrapTick
NextWrap == Next /\ S32(tick') <= MaxWrapTick

SpecWrap == InitWrap /\ [][NextWrap]_vars

\* ------------------------------------- the monitor when every read succeeds
\* a step of the ADC block in which the conversion fails: the deadline is due
\* and the window has room, and no reading is stored
ReadFails ==
  /\ pc = "adc" /\ pc' = "print"
  /\ now >= next_adc_tick
  /\ adc_count < MAX_ADC_SAMPLES
  /\ adc_count' = adc_count

\* the steps of the monitor in which HAL_ADC_PollForConversion returns HAL_OK
NextReads == Next /\ ~ReadFails

SpecReads == Init /\ [][NextReads]_vars

\* ------------------------------------------------------------------ claims

\* C1: from WaitHeader, the ten bytes FC 0A 00 01 b0..b5 produce exactly one
\* temperature sample, on the tenth byte and on none before it, of raw value
\* b0 + 256*b1, and leave the decoder in WaitHeader.
\* (Checked on the first frame of every stream and, when no noise precedes it,
\* on the second, which meets the decoder as the first frame left it.)
C1_FrameDecoded ==
  /\ pos \in 1..9 => sample = NoSample
  /\ pos = 10 => /\ sample = FrameRaw(1)
                 /\ p_state = "STATE_WAIT_FC"
  /\ Len(wire) = 20 =>
       /\ pos \in 11..19 => sample = NoSample
       /\ pos = 20 => /\ sample = FrameRaw(11)
                      /\ p_state = "STATE_WAIT_FC"

C1_Witness == pos = 10 /\ sample = 1000 /\ wire[5] = 232 /\ wire[6] = 3

\* C2: a valid frame, any run of noise bytes, a valid frame: the sample of
\* each of the two frames is produced, the second with its own raw value.
C2_Resynchronized ==
  /\ (ChecksumOk(1) /\ pos = 10) => sample = FrameRaw(1)
  /\ (ChecksumOk(1) /\ pos = Len(wire)) => sample = FrameRaw(Second)

\* C3: a frame whose tenth byte is not the XOR of the nine before it produces
\* no sample and leaves the temperature register alone; the decoder is back
\* in WaitHeader and decodes the valid frame that follows.
C3_BadChecksumDropped ==
  ~ChecksumOk(1) =>
    /\ pos = 10 => /\ sample = NoSample
                   /\ g_has_valid_data = 0
                   /\ p_state = "STATE_WAIT_FC"
    /\ (Len(wire) = 20 /\ pos = 20) => sample = FrameRaw(11)

\* a step of the receive interrupt that completes a frame
FrameArrives == pos' = pos + 1 /\ Completes(Decoder)

\* C4: a completed frame whose raw value is above 1000 leaves the register
\* (value and ever-received flag) and the synchronization state (sync flag,
\* TimeBase, both deadlines) as they were, and the decoder in WaitHeader; and
\* whenever the ever-received flag is set the register value is within
\* [0.0, 100.0] (0..1000 tenths).
C4_RangeFilter ==
  /\ [](g_has_valid_data = 1 =>
          (g_latest_valid_temp >= 0 /\ g_latest_valid_temp <= 1000))
  /\ [][(FrameArrives /\ sample' > 1000) =>
          /\ UNCHANGED <<register, timeline>>
          /\ p_state' = "STATE_WAIT_FC"]_vars

C4_Witness ==
  /\ pos = 10 /\ sample = 1001 /\ p_state = "STATE_WAIT_FC"
  /\ g_has_valid_data = 1 /\ g_latest_valid_temp = 232

\* C5: an in-range frame that completes at tick t while the monitor is
\* Running and not synchronized makes it synchronized, with TimeBase = t + 250,
\* next report deadline = t + 250 and next sample deadline = t.
C5_SyncOnFrame ==
  [][(FrameArrives /\ sample' >= 0 /\ sample' <= 1000
        /\ is_running = 1 /\ time_synced = 0) =>
       /\ time_synced' = 1
       /\ time_base_tick' = tick + 250
       /\ next_print_tick' = tick + 250
       /\ next_adc_tick' = tick]_vars

C5_Witness ==
  /\ pos = 10 /\ sample = 232 /\ tick = 100 /\ is_running = 1
  /\ time_synced = 1 /\ time_base_tick = 350 /\ next_print_tick = 350
  /\ next_adc_tick = 100

\* the hundredths of a second that "%.2f" prints for ms milliseconds
Hundredths(ms) == (ms + 5) \div 10

\* C6: the elapsed time a report carries is the accumulated report deadline
\* minus TimeBase (0, 250, 500, ... ms), whatever the tick of the poll that
\* emits it.  Compared as printed, in hundredths of a second.
C6_ElapsedFromDeadline ==
  report # NoReport =>
    Hundredths(report.elapsed) = Hundredths(next_print_tick - time_base_tick)

C8_TimeBaseFixed ==
  [][(is_running = 1 /\ time_synced = 1 /\ ~(pc = "restart" /\ pc' = "gate")) =>
       /\ time_base_tick' = time_base_tick
       /\ time_synced' = 1]_vars

C8_Witness ==
  /\ is_running = 1 /\ time_synced = 1 /\ time_base_tick = 250 /\ tick = 500
  /\ pos = 10 /\ sample = 1001 /\ g_latest_valid_temp = 1000

\* C9: the (flag, value) pair read for a report is the register as it stood
\* at one moment: the register does not change between the read of the value
\* and the read of the flag, whatever the interrupt does around them.
C9_SnapshotRead ==
  pc = "emit" => seen = {<<has_data, current_temp>>}

C9_Witness ==
  /\ pc = "emit" /\ has_data = 1 /\ current_temp = 232
  /\ g_latest_valid_temp = 1000

\* C10: a poll stores an analog sample or emits a report only while the
\* monitor is Running and synchronized (hence after an in-range frame): not
\* before the first such frame, not while Stopped, not after a restart before
\* a new frame has synchronized it.
C10_GatedBySync ==
  [][(adc_count' > adc_count \/ (report' # NoReport /\ report = NoReport)) =>
       /\ is_running = 1
       /\ time_synced = 1
       /\ g_has_valid_data = 1]_vars

C10_Witness ==
  /\ pc = "next" /\ report # NoReport /\ report.adc = 7
  /\ is_running = 1 /\ time_synced = 1

\* C11: the restart branch of a start/stop toggle leaves the monitor
\* unsynchronized with an empty sample window, whatever it was before; the
\* sync flag is set, and TimeBase changed, only by an in-range frame that
\* completes while the running flag is set, TimeBase becoming that frame's
\* arrival tick + 250; a frame that completes while the monitor is Stopped
\* puts its value in the register if it is in range and leaves the sync flag,
\* TimeBase and both deadlines alone.
C11_RestartResync ==
  /\ [][(pc = "restart" /\ pc' = "gate") =>
          (time_synced' = 0 /\ adc_count' = 0)]_vars
  /\ [][((time_synced = 0 /\ time_synced' = 1)
            \/ time_base_tick' # time_base_tick) =>
          /\ FrameArrives
          /\ sample' >= 0 /\ sample' <= 1000
          /\ is_running = 1
          /\ time_base_tick' = tick + 250]_vars
  /\ [][(FrameArrives /\ is_running = 0) =>
          /\ UNCHANGED timeline
          /\ (sample' >= 0 /\ sample' <= 1000) =>
                (g_latest_valid_temp' = sample' /\ g_has_valid_data' = 1)]_vars

C11_Witness ==
  /\ pc = "gate" /\ is_running = 1 /\ time_synced = 0 /\ adc_count = 0
  /\ tick = 100 /\ time_base_tick = 250 /\ g_latest_valid_temp = 1000
  /\ pos = 10 /\ sample = 1000

\* C12: when the sample deadline d (period 50) or the report deadline d
\* (period 250) fires at a poll of tick now >= d, the new deadline is
\* d + period if now - d <= period and now + period otherwise; a step of a
\* poll at which the deadline does not fire leaves it as it was.
C12_DeadlineAccumulation ==
  /\ [][(pc = "adc" /\ pc' = "print" /\ now >= next_adc_tick) =>
          next_adc_tick' = IF now - next_adc_tick <= 50
                           THEN next_adc_tick + 50 ELSE now + 50]_vars
  /\ [][(pc = "next" /\ pc' = "idle") =>
          /\ now >= next_print_tick
          /\ next_print_tick' = IF now - next_print_tick <= 250
                                THEN next_print_tick + 250 ELSE now + 250]_vars
  /\ [][(pc' # pc /\ ~(pc = "adc" /\ now >= next_adc_tick)) =>
          next_adc_tick' = next_adc_tick]_vars
  /\ [][(pc' # pc /\ pc # "next") => next_print_tick' = next_print_tick]_vars

C12_Witness ==
  /\ pc = "print" /\ now = 700 /\ time_base_tick = 250
  /\ next_print_tick = 800 /\ next_adc_tick = 700

\* C13: a poll emits at most one report, and a report is never the third
\* within less than one report period (250): when a report is emitted, the
\* report before the previous one was emitted at least 250 ticks earlier.
C13_AntiBurst ==
  /\ [][(report = NoReport /\ report' # NoReport) =>
          /\ pc = "emit" /\ pc' = "next"
          /\ Len(reported) = 2 => now >= reported[1] + 250]_vars
  /\ [][pc = "next" => (report' = report \/ pc' = "idle")]_vars

C13_Witness ==
  /\ pc = "next" /\ report # NoReport /\ report.at = 750
  /\ reported = <<500, 750>> /\ next_print_tick = 750

\* C14: once a reading has been stored the sample window holds exactly N
\* readings (N the capacity, MAX_ADC_SAMPLES): storing a reading replaces the
\* oldest one and the number of readings held never changes.
C14_RingWindow == adc_count > 0 => adc_count = MAX_ADC_SAMPLES

\* C15: for a window of n readings (1 <= n <= MaxWin) the median in the
\* report is the element at index floor(n/2), counted from 0, of the readings
\* in ascending order, and computing it leaves the window (the readings, their
\* order and their count) as it was.
C15_MedianIndex ==
  /\ [](pc = "clear" =>
          report.adc = KthSmallest(adc_values, Len(adc_values) \div 2))
  /\ [][UNCHANGED window]_vars

C15_Witness ==
  /\ pc = "clear" /\ adc_values = <<4, 1, 3, 2>> /\ adc_count = 4
  /\ report.adc = 3

\* C16: the callback, on whatever byte, leaves the running flag, the sync
\* flag, TimeBase, the two deadlines and the sample window as they were: of
\* the state the poll uses it writes the temperature register alone.
C16_RegisterOnlyShared ==
  [][pos' = pos + 1 => UNCHANGED <<is_running, timeline, window>>]_vars

\* C17: when every analog read succeeds, a report is computed over a window
\* that holds at least one reading.
C17_WindowNotEmpty ==
  (pc = "emit" /\ has_data = 1) => adc_count >= 1

\* C18: whenever a poll finds the sample deadline due, the window holds fewer
\* than MAX_ADC_SAMPLES (10) readings, so a reading that is read is stored.
C18_RoomForReading ==
  (pc = "adc" /\ now >= next_adc_tick) => adc_count < 10

C18_Witness ==
  /\ pc = "print" /\ adc_count = 6 /\ adc_values = <<7, 7, 7, 7, 7, 7>>
  /\ now = 250 /\ next_adc_tick = 300

\* C19: once an in-range frame has set the sync flag after the running flag
\* was last set, the flag stays set while the monitor is Running.
C19_SyncNotLost == (is_running = 1 /\ fresh) => time_synced = 1

\* C20: across the wrap of the tick counter, a report carries a non-negative
\* elapsed time, and if the monitor synchronized at a tick t less than 250
\* before the wrap (so that TimeBase = t + 250 wrapped below 250), the report
\* is emitted at least 250 ticks after t.
C20_WrapSafe ==
  report # NoReport =>
    /\ report.elapsed >= 0
    /\ time_base_tick < 250 =>
         U32(report.at - U32(time_base_tick - 250)) >= 250

====
